---- MODULE Spec2Model ----
(***************************************************************************)
(* Admission control of zenoh-plugin-ros2dds (src/events.rs):              *)
(* ROS2DiscoveryEvent::is_allowed and ROS2AnnouncementEvent::is_allowed,   *)
(* evaluated against the allow/deny configuration (config.allowance).      *)
(*                                                                         *)
(* Names.  A ROS2 interface name is a record [ns, base]: [ns |-> "",       *)
(* base |-> 1] is the top-level name "/t1", [ns |-> "bot", base |-> 1] is  *)
(* "/bot/t1".  A Zenoh key expression is a record [prefix, topic]:         *)
(* [prefix |-> "bot", topic |-> 1] is "bot/t1", [prefix |-> "", ...] is    *)
(* "t1".  Nodes are numbered; in the unit test of events.rs node 1 is      *)
(* "allowed_node" and node 2 is "denied_node", base name 1 is the name of  *)
(* the allowed_local_* interfaces and base name 2 the "/XXX_*" name of the *)
(* denied_local_* interfaces.                                              *)
(***************************************************************************)
EXTENDS Naturals, FiniteSets, Sequences, TLC

VARIABLES config, event, snap, pc, by_default, node_ok, result, admitted

vars == <<config, event, snap, pc, by_default, node_ok, result, admitted>>

(* ------------------------------ bounds --------------------------------- *)

MaxNode == 2

MaxName == 2

MaxEntries == 2

Nodes == 1..MaxNode

BaseNames == 1..MaxName

(* --------------------------- interface kinds --------------------------- *)

Kinds ==
  {"publishers", "subscribers", "service_servers", "service_clients",
   "action_servers", "action_clients"}

DiscoveryVariants ==
  {"DiscoveredMsgPub", "UndiscoveredMsgPub", "DiscoveredMsgSub", "UndiscoveredMsgSub",
   "DiscoveredServiceSrv", "UndiscoveredServiceSrv", "DiscoveredServiceCli",
   "UndiscoveredServiceCli", "DiscoveredActionSrv", "UndiscoveredActionSrv",
   "DiscoveredActionCli", "UndiscoveredActionCli"}

AnnouncementVariants ==
  {"AnnouncedMsgPub", "RetiredMsgPub", "AnnouncedMsgSub", "RetiredMsgSub",
   "AnnouncedServiceSrv", "RetiredServiceSrv", "AnnouncedServiceCli",
   "RetiredServiceCli", "AnnouncedActionSrv", "RetiredActionSrv",
   "AnnouncedActionCli", "RetiredActionCli"}

(* ------------------------------- names --------------------------------- *)

NsChunks == {"bot", "arm"}

Namespaces == {"/", "/bot"}

TopName(b) == [ns |-> "", base |-> b]

TopNames == {TopName(b) : b \in BaseNames}

Ros2Names == [ns : {""} \cup NsChunks, base : BaseNames]

KeyExprs == [prefix : {""} \cup NsChunks, topic : BaseNames]

\* the namespace without its leading '/': &config.namespace[1..]
NsPrefix(namespace) == IF namespace = "/bot" THEN "bot" ELSE ""

\* the key expression carries the configured namespace as its prefix
HasNamespace(ke, cfg) == cfg.namespace # "/" /\ ke.prefix = NsPrefix(cfg.namespace)

\* ros2_utils::key_expr_to_ros2_name: strips the configured namespace from the
\* key expression when it is there, and otherwise returns the key expression
\* itself with a leading '/'.  It always returns a name.
key_expr_to_ros2_name(ke, cfg) ==
  IF HasNamespace(ke, cfg)
    THEN [ns |-> "", base |-> ke.topic]
    ELSE [ns |-> ke.prefix, base |-> ke.topic]

(* ------------------------------ events --------------------------------- *)

DiscoveryEvents == [variant : DiscoveryVariants, node : Nodes, name : TopNames]

AnnouncementEvents == [variant : AnnouncementVariants, zenoh_key_expr : KeyExprs]

(* --------------------------- config.allowance -------------------------- *)

\* enum Allowance { Allow(lists), Deny(lists) }: the lists of the "allow" or of
\* the "deny" section of the configuration
Allowance(rule, nodes, names) == [rule |-> rule, nodes |-> nodes, names |-> names]

is_allow_by_default(allowance) == allowance.rule = "deny"

is_node_allowed(allowance, node) ==
  IF allowance.rule = "allow" THEN node \in allowance.nodes ELSE node \notin allowance.nodes

NameAllowed(allowance, kind, name) ==
  IF allowance.rule = "allow"
    THEN name \in allowance.names[kind]
    ELSE name \notin allowance.names[kind]

is_publisher_allowed(allowance, name) == NameAllowed(allowance, "publishers", name)

is_subscriber_allowed(allowance, name) == NameAllowed(allowance, "subscribers", name)

is_service_srv_allowed(allowance, name) == NameAllowed(allowance, "service_servers", name)

is_service_cli_allowed(allowance, name) == NameAllowed(allowance, "service_clients", name)

is_action_srv_allowed(allowance, name) == NameAllowed(allowance, "action_servers", name)

is_action_cli_allowed(allowance, name) == NameAllowed(allowance, "action_clients", name)

\* Option<Allowance>: <<>> is None, <<a>> is Some(a)
None == <<>>

Some(a) == <<a>>

(* ---------------------- the configurations explored -------------------- *)

Slots == ({"nodes"} \X Nodes) \cup (Kinds \X BaseNames)

RECURSIVE EntrySets(_)
EntrySets(k) ==
  IF k = 0 THEN {{}}
  ELSE LET smaller == EntrySets(k - 1)
       IN  smaller \cup {s \cup {x} : s \in smaller, x \in Slots}

FromEntries(rule, entries) ==
  Allowance(rule,
            {n \in Nodes : <<"nodes", n>> \in entries},
            [k \in Kinds |-> {TopName(b) : b \in {c \in BaseNames : <<k, c>> \in entries}}])

\* configurations with at most MaxEntries list entries
BoundedAllowances ==
  {FromEntries(rule, entries) : rule \in {"allow", "deny"}, entries \in EntrySets(MaxEntries)}

\* the "allow" configuration of tests::test_discovery_events_allowance
TestAllow == Allowance("allow", {1}, [k \in Kinds |-> {TopName(1)}])

\* the "deny" configuration of tests::test_discovery_events_allowance
TestDeny == Allowance("deny", {2}, [k \in Kinds |-> {TopName(2)}])

Allowances == BoundedAllowances \cup {TestAllow, TestDeny}

Configs == [namespace : Namespaces, allowance : {None} \cup {Some(a) : a \in Allowances}]

(* ------------------------- the admission predicates -------------------- *)

\* tables used to state the properties: the kind an event variant is about, and
\* the kind created locally in response to a remote announcement
DiscoveryKind(variant) ==
  CASE variant \in {"DiscoveredMsgPub", "UndiscoveredMsgPub"} -> "publishers"
    [] variant \in {"DiscoveredMsgSub", "UndiscoveredMsgSub"} -> "subscribers"
    [] variant \in {"DiscoveredServiceSrv", "UndiscoveredServiceSrv"} -> "service_servers"
    [] variant \in {"DiscoveredServiceCli", "UndiscoveredServiceCli"} -> "service_clients"
    [] variant \in {"DiscoveredActionSrv", "UndiscoveredActionSrv"} -> "action_servers"
    [] variant \in {"DiscoveredActionCli", "UndiscoveredActionCli"} -> "action_clients"

AnnouncementKind(variant) ==
  CASE variant \in {"AnnouncedMsgPub", "RetiredMsgPub"} -> "publishers"
    [] variant \in {"AnnouncedMsgSub", "RetiredMsgSub"} -> "subscribers"
    [] variant \in {"AnnouncedServiceSrv", "RetiredServiceSrv"} -> "service_servers"
    [] variant \in {"AnnouncedServiceCli", "RetiredServiceCli"} -> "service_clients"
    [] variant \in {"AnnouncedActionSrv", "RetiredActionSrv"} -> "action_servers"
    [] variant \in {"AnnouncedActionCli", "RetiredActionCli"} -> "action_clients"

Reciprocal(kind) ==
  CASE kind = "publishers" -> "subscribers"
    [] kind = "subscribers" -> "publishers"
    [] kind = "service_servers" -> "service_clients"
    [] kind = "service_clients" -> "service_servers"
    [] kind = "action_servers" -> "action_clients"
    [] kind = "action_clients" -> "action_servers"

\* faulty variant: node and name are always combined by AND
Discovery_always_and(ev, cfg) ==
  IF cfg.allowance # None
    THEN is_node_allowed(cfg.allowance[1], ev.node)
         /\ NameAllowed(cfg.allowance[1], DiscoveryKind(ev.variant), ev.name)
    ELSE TRUE

\* faulty variant: node and name are always combined by OR
Discovery_always_or(ev, cfg) ==
  IF cfg.allowance # None
    THEN is_node_allowed(cfg.allowance[1], ev.node)
         \/ NameAllowed(cfg.allowance[1], DiscoveryKind(ev.variant), ev.name)
    ELSE TRUE

\* faulty variant: the two branches of the is_allow_by_default() test are swapped
Discovery_swapped_branches(ev, cfg) ==
  IF cfg.allowance # None
    THEN IF is_allow_by_default(cfg.allowance[1])
           THEN is_node_allowed(cfg.allowance[1], ev.node)
                \/ NameAllowed(cfg.allowance[1], DiscoveryKind(ev.variant), ev.name)
           ELSE is_node_allowed(cfg.allowance[1], ev.node)
                /\ NameAllowed(cfg.allowance[1], DiscoveryKind(ev.variant), ev.name)
    ELSE TRUE

\* faulty variant: the node test is skipped when the policy allows by default
Discovery_node_skipped(ev, cfg) ==
  IF cfg.allowance # None
    THEN IF is_allow_by_default(cfg.allowance[1])
           THEN NameAllowed(cfg.allowance[1], DiscoveryKind(ev.variant), ev.name)
           ELSE is_node_allowed(cfg.allowance[1], ev.node)
                \/ NameAllowed(cfg.allowance[1], DiscoveryKind(ev.variant), ev.name)
    ELSE TRUE

\* faulty variant: the subscriber arm was copied from the publisher arm and
\* still asks the publisher test
Discovery_sub_asks_pub(ev, cfg) ==
  IF cfg.allowance # None
    THEN LET kind == IF DiscoveryKind(ev.variant) = "subscribers"
                       THEN "publishers" ELSE DiscoveryKind(ev.variant)
         IN  IF is_allow_by_default(cfg.allowance[1])
               THEN is_node_allowed(cfg.allowance[1], ev.node)
                    /\ NameAllowed(cfg.allowance[1], kind, ev.name)
               ELSE is_node_allowed(cfg.allowance[1], ev.node)
                    \/ NameAllowed(cfg.allowance[1], kind, ev.name)
    ELSE TRUE

\* faulty variant: without allow-by-default only the node test is asked
Discovery_node_only_otherwise(ev, cfg) ==
  IF cfg.allowance # None
    THEN IF is_allow_by_default(cfg.allowance[1])
           THEN is_node_allowed(cfg.allowance[1], ev.node)
                /\ NameAllowed(cfg.allowance[1], DiscoveryKind(ev.variant), ev.name)
           ELSE is_node_allowed(cfg.allowance[1], ev.node)
    ELSE TRUE

\* impl ROS2DiscoveryEvent { fn is_allowed(&self, config: &Config) -> bool }
ROS2DiscoveryEvent_is_allowed(ev, cfg) ==
  IF cfg.allowance # None
    THEN LET allowance == cfg.allowance[1]
             node == ev.node
             iface == ev
         IN  CASE ev.variant \in {"DiscoveredMsgPub", "UndiscoveredMsgPub"} ->
                    IF is_allow_by_default(allowance)
                      THEN is_node_allowed(allowance, node)
                           /\ is_publisher_allowed(allowance, iface.name)
                      ELSE is_node_allowed(allowance, node)
                           \/ is_publisher_allowed(allowance, iface.name)
               [] ev.variant \in {"DiscoveredMsgSub", "UndiscoveredMsgSub"} ->
                    IF is_allow_by_default(allowance)
                      THEN is_node_allowed(allowance, node)
                           /\ is_subscriber_allowed(allowance, iface.name)
                      ELSE is_node_allowed(allowance, node)
                           \/ is_subscriber_allowed(allowance, iface.name)
               [] ev.variant \in {"DiscoveredServiceSrv", "UndiscoveredServiceSrv"} ->
                    IF is_allow_by_default(allowance)
                      THEN is_node_allowed(allowance, node)
                           /\ is_service_srv_allowed(allowance, iface.name)
                      ELSE is_node_allowed(allowance, node)
                           \/ is_service_srv_allowed(allowance, iface.name)
               [] ev.variant \in {"DiscoveredServiceCli", "UndiscoveredServiceCli"} ->
                    IF is_allow_by_default(allowance)
                      THEN is_node_allowed(allowance, node)
                           /\ is_service_cli_allowed(allowance, iface.name)
                      ELSE is_node_allowed(allowance, node)
                           \/ is_service_cli_allowed(allowance, iface.name)
               [] ev.variant \in {"DiscoveredActionSrv", "UndiscoveredActionSrv"} ->
                    IF is_allow_by_default(allowance)
                      THEN is_node_allowed(allowance, node)
                           /\ is_action_srv_allowed(allowance, iface.name)
                      ELSE is_node_allowed(allowance, node)
                           \/ is_action_srv_allowed(allowance, iface.name)
               [] ev.variant \in {"DiscoveredActionCli", "UndiscoveredActionCli"} ->
                    IF is_allow_by_default(allowance)
                      THEN is_node_allowed(allowance, node)
                           /\ is_action_cli_allowed(allowance, iface.name)
                      ELSE is_node_allowed(allowance, node)
                           \/ is_action_cli_allowed(allowance, iface.name)
    ELSE TRUE

\* faulty variant: without a policy every announcement is refused
Announcement_none_refuses(ev, cfg) ==
  IF cfg.allowance # None
    THEN NameAllowed(cfg.allowance[1], Reciprocal(AnnouncementKind(ev.variant)),
                     key_expr_to_ros2_name(ev.zenoh_key_expr, cfg))
    ELSE FALSE

\* faulty variant: the announcement is checked with the test of its own kind
Announcement_own_kind(ev, cfg) ==
  IF cfg.allowance # None
    THEN NameAllowed(cfg.allowance[1], AnnouncementKind(ev.variant),
                     key_expr_to_ros2_name(ev.zenoh_key_expr, cfg))
    ELSE TRUE

\* faulty variant: a key expression without the configured namespace is refused
Announcement_rejects_foreign(ev, cfg) ==
  IF cfg.allowance # None
    THEN (cfg.namespace = "/" \/ HasNamespace(ev.zenoh_key_expr, cfg))
         /\ NameAllowed(cfg.allowance[1], Reciprocal(AnnouncementKind(ev.variant)),
                        key_expr_to_ros2_name(ev.zenoh_key_expr, cfg))
    ELSE TRUE

\* faulty variant: the "nodes" rule is applied as well, to the announcing peer
\* taken as node 1, with the combination rule of the discovery events
Announcement_with_nodes(ev, cfg) ==
  IF cfg.allowance # None
    THEN LET test == NameAllowed(cfg.allowance[1], Reciprocal(AnnouncementKind(ev.variant)),
                                 key_expr_to_ros2_name(ev.zenoh_key_expr, cfg))
         IN  IF is_allow_by_default(cfg.allowance[1])
               THEN is_node_allowed(cfg.allowance[1], 1) /\ test
               ELSE is_node_allowed(cfg.allowance[1], 1) \/ test
    ELSE TRUE

\* faulty variant: a retirement is let through without asking the policy
Announcement_retired_unchecked(ev, cfg) ==
  IF cfg.allowance # None
    THEN IF ev.variant \in {"RetiredMsgPub", "RetiredMsgSub", "RetiredServiceSrv",
                            "RetiredServiceCli", "RetiredActionSrv", "RetiredActionCli"}
           THEN TRUE
           ELSE NameAllowed(cfg.allowance[1], Reciprocal(AnnouncementKind(ev.variant)),
                            key_expr_to_ros2_name(ev.zenoh_key_expr, cfg))
    ELSE TRUE

\* impl ROS2AnnouncementEvent { fn is_allowed(&self, config: &Config) -> bool }
ROS2AnnouncementEvent_is_allowed(ev, cfg) ==
  IF cfg.allowance # None
    THEN LET allowance == cfg.allowance[1]
             zenoh_key_expr == ev.zenoh_key_expr
         IN  CASE ev.variant \in {"AnnouncedMsgPub", "RetiredMsgPub"} ->
                    is_subscriber_allowed(allowance, key_expr_to_ros2_name(zenoh_key_expr, cfg))
               [] ev.variant \in {"AnnouncedMsgSub", "RetiredMsgSub"} ->
                    is_publisher_allowed(allowance, key_expr_to_ros2_name(zenoh_key_expr, cfg))
               [] ev.variant \in {"AnnouncedServiceSrv", "RetiredServiceSrv"} ->
                    is_service_cli_allowed(allowance, key_expr_to_ros2_name(zenoh_key_expr, cfg))
               [] ev.variant \in {"AnnouncedServiceCli", "RetiredServiceCli"} ->
                    is_service_srv_allowed(allowance, key_expr_to_ros2_name(zenoh_key_expr, cfg))
               [] ev.variant \in {"AnnouncedActionSrv", "RetiredActionSrv"} ->
                    is_action_cli_allowed(allowance, key_expr_to_ros2_name(zenoh_key_expr, cfg))
               [] ev.variant \in {"AnnouncedActionCli", "RetiredActionCli"} ->
                    is_action_srv_allowed(allowance, key_expr_to_ros2_name(zenoh_key_expr, cfg))
    ELSE TRUE

(* ------------------- Spec: one admission check per run ----------------- *)

\* a configuration is loaded and no event has been checked yet
Init ==
  /\ config \in Configs
  /\ event = None
  /\ snap = None
  /\ pc = "idle"
  /\ by_default = FALSE
  /\ node_ok = FALSE
  /\ result = FALSE
  /\ admitted = None

\* the caller hands a discovery event and its &Config to is_allowed
DiscoveryCheck(ev) ==
  /\ pc = "idle"
  /\ event' = Some(ev)
  /\ snap' = Some(config)
  /\ result' = ROS2DiscoveryEvent_is_allowed(ev, config)
  /\ pc' = "done"
  /\ UNCHANGED <<admitted, config, by_default, node_ok>>

\* the caller hands an announcement event and its &Config to is_allowed
AnnouncementCheck(ev) ==
  /\ pc = "idle"
  /\ event' = Some(ev)
  /\ snap' = Some(config)
  /\ result' = ROS2AnnouncementEvent_is_allowed(ev, config)
  /\ pc' = "done"
  /\ UNCHANGED <<admitted, config, by_default, node_ok>>

Next ==
  \/ \E ev \in DiscoveryEvents : DiscoveryCheck(ev)
  \/ \E ev \in AnnouncementEvents : AnnouncementCheck(ev)

Spec == Init /\ [][Next]_vars

(* ------------ SpecReload: checks in flight while the policy is reloaded ------------ *)

\* every name allowed for every kind, by an "allow" section that lists them all
AllowEvery == Allowance("allow", {1}, [k \in Kinds |-> Ros2Names])

\* every name allowed for every kind, by a "deny" section that lists none
DenyNone == Allowance("deny", {1}, [k \in Kinds |-> {}])

\* the "allow" configuration of the unit test with another node listed
TestAllowOtherNode == [TestAllow EXCEPT !.nodes = Nodes \ {1}]

ReloadAllowances == {TestAllow, TestDeny, TestAllowOtherNode, AllowEvery, DenyNone}

ReloadConfigs ==
  [namespace : Namespaces, allowance : {None} \cup {Some(a) : a \in ReloadAllowances}]

\* faulty variant: the check reads the configuration that is live at each step
LiveConfig == config

\* the config: &Config the running call was given
CheckedConfig == snap[1]

\* the name test the match arm of the event selects, on iface.name
DiscoveryNameTest(ev, allowance) ==
  CASE ev.variant \in {"DiscoveredMsgPub", "UndiscoveredMsgPub"} ->
         is_publisher_allowed(allowance, ev.name)
    [] ev.variant \in {"DiscoveredMsgSub", "UndiscoveredMsgSub"} ->
         is_subscriber_allowed(allowance, ev.name)
    [] ev.variant \in {"DiscoveredServiceSrv", "UndiscoveredServiceSrv"} ->
         is_service_srv_allowed(allowance, ev.name)
    [] ev.variant \in {"DiscoveredServiceCli", "UndiscoveredServiceCli"} ->
         is_service_cli_allowed(allowance, ev.name)
    [] ev.variant \in {"DiscoveredActionSrv", "UndiscoveredActionSrv"} ->
         is_action_srv_allowed(allowance, ev.name)
    [] ev.variant \in {"DiscoveredActionCli", "UndiscoveredActionCli"} ->
         is_action_cli_allowed(allowance, ev.name)

InitReload ==
  /\ config \in ReloadConfigs
  /\ event = None
  /\ snap = None
  /\ pc = "idle"
  /\ by_default = FALSE
  /\ node_ok = FALSE
  /\ result = FALSE
  /\ admitted = None

\* the policy-loading collaborator replaces the configuration other calls will see
Reload(cfg) ==
  /\ cfg # config
  /\ config' = cfg
  /\ UNCHANGED <<admitted, event, snap, pc, by_default, node_ok, result>>

\* is_allowed(&self, config) is entered: the call holds the reference it was given
Begin(ev) ==
  /\ pc = "idle"
  /\ event' = Some(ev)
  /\ snap' = Some(config)
  /\ pc' = "match"
  /\ UNCHANGED <<admitted, config, by_default, node_ok, result>>

\* if let Some(allowance) = &config.allowance { match self ... } else { true }
MatchAllowance ==
  /\ pc = "match"
  /\ IF CheckedConfig.allowance = None
       THEN result' = TRUE /\ pc' = "done"
       ELSE /\ UNCHANGED result
            /\ pc' = IF event[1].variant \in DiscoveryVariants THEN "default" ELSE "name"
  /\ UNCHANGED <<admitted, config, event, snap, by_default, node_ok>>

\* if allowance.is_allow_by_default()
ReadDefault ==
  /\ pc = "default"
  /\ by_default' = is_allow_by_default(CheckedConfig.allowance[1])
  /\ pc' = "node"
  /\ UNCHANGED <<admitted, config, event, snap, node_ok, result>>

\* allowance.is_node_allowed(node), the left operand of && or of ||
TestNode ==
  /\ pc = "node"
  /\ LET ok == is_node_allowed(CheckedConfig.allowance[1], event[1].node)
     IN  /\ node_ok' = ok
         /\ IF by_default /\ ~ok THEN result' = FALSE /\ pc' = "done"
            ELSE IF ~by_default /\ ok THEN result' = TRUE /\ pc' = "done"
            ELSE UNCHANGED result /\ pc' = "name"
  /\ UNCHANGED <<admitted, config, event, snap, by_default>>

\* the name test: the right operand for a discovery event, the whole arm for
\* an announcement event
TestName ==
  /\ pc = "name"
  /\ result' = IF event[1].variant \in DiscoveryVariants
                 THEN DiscoveryNameTest(event[1], CheckedConfig.allowance[1])
                 ELSE ROS2AnnouncementEvent_is_allowed(event[1], CheckedConfig)
  /\ pc' = "done"
  /\ UNCHANGED <<admitted, config, event, snap, by_default, node_ok>>

\* the caller has used the boolean; the event and the borrow are dropped
Return ==
  /\ pc = "done"
  /\ pc' = "idle"
  /\ event' = None
  /\ snap' = None
  /\ by_default' = FALSE
  /\ node_ok' = FALSE
  /\ result' = FALSE
  /\ UNCHANGED <<admitted, config>>

NextReload ==
  \/ \E cfg \in ReloadConfigs : Reload(cfg)
  \/ \E ev \in DiscoveryEvents \cup AnnouncementEvents : Begin(ev)
  \/ MatchAllowance
  \/ ReadDefault
  \/ TestNode
  \/ TestName
  \/ Return

SpecReload == InitReload /\ [][NextReload]_vars

(* ------- SpecSeq: appearances and disappearances under one policy ------- *)

ZenohIds == {"peer_a", "peer_b"}

Ros2Types == {"T", "U"}

QosSettings == {"default", "reliable"}

BaseAttributes ==
  [zenoh_id |-> "peer_a", ros2_type |-> "T", keyless |-> FALSE, qos |-> "default"]

\* the attributes of an announcement, varied one at a time
Attributes ==
  {BaseAttributes,
   [BaseAttributes EXCEPT !.zenoh_id = "peer_b"],
   [BaseAttributes EXCEPT !.ros2_type = "U"],
   [BaseAttributes EXCEPT !.keyless = TRUE],
   [BaseAttributes EXCEPT !.qos = "reliable"]}

\* enum ROS2AnnouncementEvent with all the fields of each variant; is_allowed
\* binds zenoh_key_expr only (the patterns end in ..)
FullAnnouncements(key_exprs) ==
  {[variant |-> "AnnouncedMsgPub", zenoh_id |-> a.zenoh_id, zenoh_key_expr |-> ke,
    ros2_type |-> a.ros2_type, keyless |-> a.keyless, writer_qos |-> a.qos] :
     a \in Attributes, ke \in key_exprs}
  \cup
  {[variant |-> "AnnouncedMsgSub", zenoh_id |-> a.zenoh_id, zenoh_key_expr |-> ke,
    ros2_type |-> a.ros2_type, keyless |-> a.keyless, reader_qos |-> a.qos] :
     a \in Attributes, ke \in key_exprs}
  \cup
  {[variant |-> v, zenoh_id |-> a.zenoh_id, zenoh_key_expr |-> ke, ros2_type |-> a.ros2_type] :
     v \in {"AnnouncedServiceSrv", "AnnouncedServiceCli", "AnnouncedActionSrv",
            "AnnouncedActionCli"},
     a \in {x \in Attributes : x.keyless = FALSE /\ x.qos = "default"}, ke \in key_exprs}
  \cup
  {[variant |-> v, zenoh_id |-> id, zenoh_key_expr |-> ke] :
     v \in {"RetiredMsgPub", "RetiredMsgSub", "RetiredServiceSrv", "RetiredServiceCli",
            "RetiredActionSrv", "RetiredActionCli"},
     id \in ZenohIds, ke \in key_exprs}

FullAnnouncementEvents == FullAnnouncements(KeyExprs)

IsAppearance(variant) ==
  variant \in {"DiscoveredMsgPub", "DiscoveredMsgSub", "DiscoveredServiceSrv",
               "DiscoveredServiceCli", "DiscoveredActionSrv", "DiscoveredActionCli",
               "AnnouncedMsgPub", "AnnouncedMsgSub", "AnnouncedServiceSrv",
               "AnnouncedServiceCli", "AnnouncedActionSrv", "AnnouncedActionCli"}

\* ev and other are about the same interface: the same kind, and the same node
\* and name (discovery) or the same key expression (announcement)
SameInterface(ev, other) ==
  IF ev.variant \in DiscoveryVariants
    THEN /\ other.variant \in DiscoveryVariants
         /\ DiscoveryKind(other.variant) = DiscoveryKind(ev.variant)
         /\ other.node = ev.node
         /\ other.name = ev.name
    ELSE /\ other.variant \in AnnouncementVariants
         /\ AnnouncementKind(other.variant) = AnnouncementKind(ev.variant)
         /\ other.zenoh_key_expr = ev.zenoh_key_expr

\* other is the disappearance of the appearance ev
DisappearanceOf(ev, other) ==
  IsAppearance(ev.variant) /\ ~IsAppearance(other.variant) /\ SameInterface(ev, other)

\* the configurations of the unit test, and none
SeqConfigs ==
  [namespace : Namespaces, allowance : {None, Some(TestAllow), Some(TestDeny)}]

InitSeq ==
  /\ config \in SeqConfigs
  /\ event = None
  /\ snap = None
  /\ pc = "idle"
  /\ by_default = FALSE
  /\ node_ok = FALSE
  /\ result = FALSE
  /\ admitted = None

\* the caller acts on the boolean: an admitted appearance is bridged, and the
\* admitted disappearance of the bridged interface removes it
Proceed ==
  /\ pc = "done"
  /\ admitted' = IF IsAppearance(event[1].variant)
                   THEN IF result THEN Some(event[1]) ELSE admitted
                   ELSE IF admitted # None /\ result
                           /\ DisappearanceOf(admitted[1], event[1])
                          THEN None
                          ELSE admitted
  /\ pc' = "idle"
  /\ event' = None
  /\ snap' = None
  /\ result' = FALSE
  /\ UNCHANGED <<config, by_default, node_ok>>

NextSeq ==
  \/ \E ev \in DiscoveryEvents : DiscoveryCheck(ev)
  \/ \E ev \in FullAnnouncementEvents : AnnouncementCheck(ev)
  \/ Proceed

SpecSeq == InitSeq /\ [][NextSeq]_vars

(* ----------------------- properties of one check ----------------------- *)

Checked == pc = "done" /\ event # None

CheckedDiscovery == Checked /\ event[1].variant \in DiscoveryVariants

CheckedAnnouncement == Checked /\ event[1].variant \in AnnouncementVariants

\* the check ran against a configuration that has an allow or a deny section
WithPolicy == snap # None /\ snap[1].allowance # None

\* the policy the check ran against
Policy == snap[1].allowance[1]

\* the lists of the section name a node and, for the event's kind, a name
ListsNodeAndName ==
  /\ Policy.nodes # {}
  /\ Policy.names[DiscoveryKind(event[1].variant)] # {}

NodeListed == event[1].node \in Policy.nodes

NameListed == event[1].name \in Policy.names[DiscoveryKind(event[1].variant)]

\* C1: without a policy (config.allowance is None) every discovery event and
\* every announcement event is allowed, whatever its node, name or key expression.
C1_NoPolicyAllowsAll ==
  (Checked /\ snap[1].allowance = None) => result = TRUE

C1_Witness ==
  /\ CheckedAnnouncement
  /\ snap[1].allowance = None
  /\ event[1].variant = "RetiredActionCli"
  /\ event[1].zenoh_key_expr.prefix = "arm"
  /\ result = TRUE

\* C2: with a policy, an announcement of kind K is allowed if and only if the
\* name test of the reciprocal kind holds on the name resolved from its key
\* expression; the test of K itself is not the one consulted.
C2_ReciprocalMapping ==
  (CheckedAnnouncement /\ WithPolicy) =>
    result = NameAllowed(Policy, Reciprocal(AnnouncementKind(event[1].variant)),
                         key_expr_to_ros2_name(event[1].zenoh_key_expr, snap[1]))

\* a publisher announced under the configured namespace is admitted by the
\* subscriber list although the publisher list does not hold its name
C2_Witness ==
  /\ CheckedAnnouncement /\ WithPolicy
  /\ event[1].variant = "AnnouncedMsgPub"
  /\ HasNamespace(event[1].zenoh_key_expr, snap[1])
  /\ Policy.rule = "allow"
  /\ TopName(event[1].zenoh_key_expr.topic) \in Policy.names["subscribers"]
  /\ TopName(event[1].zenoh_key_expr.topic) \notin Policy.names["publishers"]
  /\ result = TRUE

\* C3: under an "allow" section that names a node N and, for the kind, a name X,
\* a Discovered<Kind> event is allowed for (N, X), (N, other name) and
\* (other node, X) and disallowed for (other node, other name): it is admitted
\* when the node or the name is listed.
C3_AllowListTable ==
  (CheckedDiscovery /\ WithPolicy) =>
    ((Policy.rule = "allow" /\ ListsNodeAndName
      /\ event[1].variant \in {"DiscoveredMsgPub", "DiscoveredMsgSub", "DiscoveredServiceSrv",
                               "DiscoveredServiceCli", "DiscoveredActionSrv",
                               "DiscoveredActionCli"})
       => (result <=> (NodeListed \/ NameListed)))

\* the third assertion of the unit test: ("denied_node", "/pub") under the
\* "allow" configuration is allowed
C3_Witness ==
  /\ CheckedDiscovery /\ WithPolicy
  /\ Policy = TestAllow
  /\ event[1] = [variant |-> "DiscoveredMsgPub", node |-> 2, name |-> TopName(1)]
  /\ result = TRUE

\* C4: under a "deny" section that names a node D and, for the kind, a name Y,
\* a Discovered<Kind> event is allowed only for (other node, other name); it is
\* disallowed for (other node, Y), (D, other name) and (D, Y).
C4_DenyListTable ==
  (CheckedDiscovery /\ WithPolicy) =>
    ((Policy.rule = "deny" /\ ListsNodeAndName
      /\ event[1].variant \in {"DiscoveredMsgPub", "DiscoveredMsgSub", "DiscoveredServiceSrv",
                               "DiscoveredServiceCli", "DiscoveredActionSrv",
                               "DiscoveredActionCli"})
       => (result <=> (~NodeListed /\ ~NameListed)))

\* ("allowed_node", "/XXX_srv_cli") under the "deny" configuration is disallowed
C4_Witness ==
  /\ CheckedDiscovery /\ WithPolicy
  /\ Policy = TestDeny
  /\ event[1] = [variant |-> "DiscoveredServiceCli", node |-> 1, name |-> TopName(2)]
  /\ result = FALSE

\* C5 as stated: under an "allow" section that lists node N and name X, a
\* discovery event is allowed only if both its node and its name are listed.
C5_AllowListConjunction ==
  (CheckedDiscovery /\ WithPolicy) =>
    ((Policy.rule = "allow" /\ ListsNodeAndName) => (result <=> (NodeListed /\ NameListed)))

\* C5 amended: an "allow" section does not make the policy allow-by-default
\* (is_allow_by_default() is false for it), and a discovery event, appearing or
\* disappearing, is then allowed exactly when its node is listed or its name is
\* listed for its kind; it is disallowed only when neither is.
C5_AllowListDisjunction ==
  (CheckedDiscovery /\ WithPolicy /\ Policy.rule = "allow") =>
    /\ ~is_allow_by_default(Policy)
    /\ result = (is_node_allowed(Policy, event[1].node)
                 \/ NameAllowed(Policy, DiscoveryKind(event[1].variant), event[1].name))
    /\ (~NodeListed /\ ~NameListed) => result = FALSE

\* the listed node alone admits an interface whose name is not listed
C5_Witness ==
  /\ CheckedDiscovery /\ WithPolicy
  /\ Policy.rule = "allow" /\ ListsNodeAndName
  /\ event[1].variant = "UndiscoveredActionSrv"
  /\ NodeListed /\ ~NameListed
  /\ result = TRUE

\* C6 as stated: under a "deny" section a discovery event is allowed if its
\* node is not denied or its name is not denied, and rejected only when both are.
C6_DenyListDisjunction ==
  (CheckedDiscovery /\ WithPolicy) =>
    (Policy.rule = "deny" => (result <=> (~NodeListed \/ ~NameListed)))

\* C6 amended: a "deny" section makes the policy allow-by-default
\* (is_allow_by_default() is true for it), and a discovery event is then allowed
\* only if its node is not denied and its name is not denied; it is rejected as
\* soon as either the node or the name is denied.
C6_DenyListConjunction ==
  (CheckedDiscovery /\ WithPolicy /\ Policy.rule = "deny") =>
    /\ is_allow_by_default(Policy)
    /\ result = (is_node_allowed(Policy, event[1].node)
                 /\ NameAllowed(Policy, DiscoveryKind(event[1].variant), event[1].name))
    /\ (NodeListed \/ NameListed) => result = FALSE

\* a denied node is rejected although the name of its interface is not denied
C6_Witness ==
  /\ CheckedDiscovery /\ WithPolicy
  /\ Policy.rule = "deny"
  /\ event[1].variant = "DiscoveredMsgSub"
  /\ NodeListed /\ ~NameListed
  /\ result = FALSE

\* the policy with the lists of every kind but `kind` replaced by `names`
OtherKindsSet(allowance, kind, names) ==
  [allowance EXCEPT !.names = [k \in Kinds |-> IF k = kind THEN allowance.names[k] ELSE names]]

\* the policy whose publisher list is the list of `kind`
AsPublishers(allowance, kind) ==
  [allowance EXCEPT !.names = [allowance.names EXCEPT !["publishers"] = allowance.names[kind]]]

\* C7: the discovery rule is the same for the six kinds and differs only in the
\* name test selected: a K event gets the result a publisher event gets when
\* the publisher list is K's list, and the lists of the other kinds have no
\* influence on it.
C7_PerKindUniform ==
  (CheckedDiscovery /\ WithPolicy) =>
    LET ev == event[1]
        kind == DiscoveryKind(ev.variant)
    IN  /\ result = ROS2DiscoveryEvent_is_allowed(
                      [ev EXCEPT !.variant = "DiscoveredMsgPub"],
                      [snap[1] EXCEPT !.allowance = Some(AsPublishers(Policy, kind))])
        /\ \A names \in {{}, TopNames} :
             result = ROS2DiscoveryEvent_is_allowed(
                        ev, [snap[1] EXCEPT !.allowance = Some(OtherKindsSet(Policy, kind, names))])

\* a name listed for publishers only does not admit a subscriber
C7_Witness ==
  /\ CheckedDiscovery /\ WithPolicy
  /\ Policy.rule = "allow"
  /\ event[1].variant = "DiscoveredMsgSub"
  /\ ~NodeListed
  /\ event[1].name \in Policy.names["publishers"]
  /\ event[1].name \notin Policy.names["subscribers"]
  /\ result = FALSE

\* the key expression does not carry the configured namespace: the resolver
\* cannot strip it to recover the name
Unresolvable(ke, cfg) == cfg.namespace # "/" /\ ke.prefix # NsPrefix(cfg.namespace)

IsAllowedOn(ev, cfg) ==
  IF ev.variant \in DiscoveryVariants
    THEN ROS2DiscoveryEvent_is_allowed(ev, cfg)
    ELSE ROS2AnnouncementEvent_is_allowed(ev, cfg)

\* the two policies give the same answer to each of the six name tests
AgreeOnNameTests(p, q) ==
  \A k \in Kinds, x \in Ros2Names : NameAllowed(p, k, x) = NameAllowed(q, k, x)

\* C8: announcement admission does not look at the node axis nor at the default
\* disposition: the result obtained under one policy is the result under any
\* other policy that answers the six name tests alike, however the two differ
\* in is_node_allowed and is_allow_by_default.
C8_NodeAxisIgnored ==
  (CheckedAnnouncement /\ WithPolicy /\ config.allowance # None
   /\ config.namespace = snap[1].namespace
   /\ AgreeOnNameTests(Policy, config.allowance[1]))
    => result = ROS2AnnouncementEvent_is_allowed(event[1], config)

\* the two policies agree on the names, differ in the default disposition and
\* on a node, and would decide a discovery by that node differently
C8_Witness ==
  /\ CheckedAnnouncement /\ WithPolicy /\ config.allowance # None
  /\ config.namespace = snap[1].namespace
  /\ AgreeOnNameTests(Policy, config.allowance[1])
  /\ is_allow_by_default(Policy) # is_allow_by_default(config.allowance[1])
  /\ \E n \in Nodes : is_node_allowed(Policy, n) # is_node_allowed(config.allowance[1], n)
  /\ result = TRUE

\* C10: a check that runs while the configuration is replaced returns the
\* result of the whole rule on the configuration it was started with, never a
\* mix of the old and the new one, and no step of the check changes the
\* configuration it reads, the event, or the live configuration.
C10_NoTornRead ==
  /\ [](pc = "done" => result = IsAllowedOn(event[1], snap[1]))
  /\ [][(pc # "idle" /\ pc' # "idle") => (snap' = snap /\ event' = event)]_vars
  /\ [][pc' # pc => config' = config]_vars

\* a discovery check is between its node test and its name test, holding the
\* default disposition of the policy it started with, while the live policy
\* has been replaced by one with the other disposition
C10_Witness ==
  /\ pc = "name"
  /\ event[1].variant \in DiscoveryVariants
  /\ config # snap[1]
  /\ config.allowance # None
  /\ by_default # is_allow_by_default(config.allowance[1])

(* --------------------- the branch on the default disposition ------------ *)

\* C11: with a policy, the discovery predicate branches on is_allow_by_default():
\* when it is true the event is allowed if and only if is_node_allowed(node)
\* and the kind's name test on iface.name both hold; when it is false the event
\* is allowed if and only if one of the two holds.
C11_BranchOnDefault ==
  (CheckedDiscovery /\ WithPolicy) =>
    LET node_test == is_node_allowed(Policy, event[1].node)
        name_test == NameAllowed(Policy, DiscoveryKind(event[1].variant), event[1].name)
    IN  /\ is_allow_by_default(Policy) => (result <=> (node_test /\ name_test))
        /\ ~is_allow_by_default(Policy) => (result <=> (node_test \/ name_test))

\* allow-by-default, the node passes its test and the name fails its own: refused
C11_Witness ==
  /\ CheckedDiscovery /\ WithPolicy
  /\ is_allow_by_default(Policy)
  /\ event[1].variant = "DiscoveredServiceSrv"
  /\ is_node_allowed(Policy, event[1].node)
  /\ ~is_service_srv_allowed(Policy, event[1].name)
  /\ result = FALSE

(* ---------------- appearance and disappearance decided alike ------------ *)

\* every event about the interface of ev, appearing or disappearing, with any
\* peer id, type, keyless flag and QoS
EventsOfInterface(ev) ==
  IF ev.variant \in DiscoveryVariants
    THEN {other \in [variant : DiscoveryVariants, node : {ev.node}, name : {ev.name}] :
            SameInterface(ev, other)}
    ELSE {other \in FullAnnouncements({ev.zenoh_key_expr}) : SameInterface(ev, other)}

\* C12: under one policy the decision for a disappearance is the decision for
\* the matching appearance: every event about the same interface (the same
\* kind, node and name, or the same kind and key expression) gets the result
\* of the check, whatever its peer id, type, keyless flag and QoS; so the
\* disappearance of an admitted appearance is admitted.
C12_DisappearanceAsAppearance ==
  Checked =>
    /\ \A other \in EventsOfInterface(event[1]) : IsAllowedOn(other, snap[1]) = result
    /\ (admitted # None /\ DisappearanceOf(admitted[1], event[1])) => result = TRUE

\* a publisher announced by one peer was admitted under a policy, and its
\* retirement, carrying another peer id, is admitted
C12_Witness ==
  /\ Checked /\ WithPolicy
  /\ admitted # None
  /\ admitted[1].variant = "AnnouncedMsgPub"
  /\ admitted[1].keyless = TRUE
  /\ event[1].variant = "RetiredMsgPub"
  /\ DisappearanceOf(admitted[1], event[1])
  /\ event[1].zenoh_id # admitted[1].zenoh_id
  /\ result = TRUE

====
